---- MODULE Spec2Model ----
(***************************************************************************)
(* Model of vispy/visuals/volume.py: the VolumeVisual host-side state      *)
(* machine (set_data, the method / cmap / threshold / relative_step_size   *)
(* setters, draw), the calculate_steps / d2P intersection code and the     *)
(* per-fragment sampling loop with its MIP and ISO snippets.               *)
(*                                                                         *)
(* Real numbers are modelled exactly: a normalised sample, a threshold or  *)
(* a distance is a pair <<num, den>> standing for num/den (den = 0 is the  *)
(* inf/nan a division by zero produces).  Positions in texture space are   *)
(* integers in units of eps = 0.000001.  Python's None is the empty tuple. *)
(***************************************************************************)
EXTENDS Integers, Sequences, FiniteSets, TLC

VARIABLES
    \* ---- VolumeVisual (host side) ----
    constructed,          \* __init__ has returned an object
    vol_shape,            \* self._vol_shape
    vertex_cache_id,      \* self._vertex_cache_id
    clim,                 \* self._clim (<<>> is None)
    cmap,                 \* self._cmap (name of the resolved colormap)
    method,               \* self._method ("unset" before the first assignment)
    threshold,            \* self._threshold
    relative_step_size,   \* self._relative_step_size (in hundredths)
    geom,                 \* self._vbo / self._index_buffer: shape they were built from (<<>> is None)
    tex,                  \* data last handed to self._tex.set_data
    u_shape,              \* self._program['u_shape']
    u_threshold,          \* self._program['u_threshold'] (<<>> is None / unset)
    u_relative_step_size, \* self._program['u_relative_step_size']
    frag,                 \* self._program.frag (which fragment shader is bound)
    last,                 \* the last call: operation, arguments, outcome
    \* ---- calculate_steps (one evaluation) ----
    edgeLoc,              \* vec3 edgeLoc, in units of eps
    ray,                  \* vec3 ray: one step, in units of eps
    extra_clipplane,      \* vec4 extra_clipplane: <<a, b, c, w>>, w in units of eps
    dists,                \* what d2P returned for the seven planes, in call order
    steps,                \* the value calculate_steps returned
    pcS,                  \* "call" before, "done" after the evaluation
    \* ---- one fragment of FRAG_SHADER ----
    fmethod,              \* which snippets are compiled in: "mip" or "iso"
    rgb,                  \* the texture holds distinct r and g channels (a multi-channel volume)
    nsteps,               \* int nsteps
    fthreshold,           \* uniform float u_threshold
    iter,                 \* int iter
    vals,                 \* the values val = color.g sampled by the loop so far, in order
    prev,                 \* the color sampled by the previous iteration, <<r, g>> (<<>> before the first)
    maxval,               \* MIP: float maxval
    maxi,                 \* MIP: float maxi
    hit,                  \* ISO: <<iter, i>> of the sub-step that wrote gl_FragColor
    outcome,              \* "none", "culled", "color" or "discard"
    pcF                   \* "main", "loop", "done"

hostVars == <<constructed, vol_shape, vertex_cache_id, clim, cmap, method,
              threshold, relative_step_size, geom, tex, u_shape, u_threshold,
              u_relative_step_size, frag, last>>

\* What a failing call must leave alone (everything but the call log).
hostState == <<constructed, vol_shape, vertex_cache_id, clim, cmap, method,
               threshold, relative_step_size, geom, tex, u_shape, u_threshold,
               u_relative_step_size, frag>>

stepVars == <<edgeLoc, ray, extra_clipplane, dists, steps, pcS>>

fragVars == <<fmethod, rgb, nsteps, fthreshold, iter, vals, prev, maxval,
              maxi, hit, outcome, pcF>>

vars == <<hostVars, stepVars, fragVars>>

None == <<>>

-----------------------------------------------------------------------------
(* Bounds of the model *)

\* voxel values of the caller's arrays range over 0..MaxSample
MaxSample == 1

\* calculate_steps: entry points lie on a face, NearDist eps inside a face,
\* or in the middle of the cube; a ray step moves by 0, FineStep or
\* CoarseStep eps along each axis, in either direction
NearDist == 2
FineStep == 2
CoarseStep == 1000

\* a fragment's step count ranges over 0..MaxSteps, texture values and the
\* threshold over 0..MaxVal
MaxSteps == 5
MaxVal == 1

-----------------------------------------------------------------------------
(* Helpers on sequences and fractions *)

RECURSIVE Prod(_)
Prod(s) == IF s = <<>> THEN 1 ELSE Head(s) * Prod(Tail(s))

RECURSIVE Sum(_)
Sum(s) == IF s = <<>> THEN 0 ELSE Head(s) + Sum(Tail(s))

\* ndarray.min() / ndarray.max()
Min(data) == CHOOSE x \in {data[i] : i \in DOMAIN data} :
                 \A j \in DOMAIN data : x <= data[j]
Max(data) == CHOOSE x \in {data[i] : i \in DOMAIN data} :
                 \A j \in DOMAIN data : x >= data[j]

-----------------------------------------------------------------------------
(* Inputs *)

Samples == 0..MaxSample

GoodShapes == { <<1, 1, 1>>, <<1, 1, 2>>, <<1, 1, 1, 1>> }

\* the arrays a caller may pass: well-formed 3-D / 4-D volumes (a float32
\* one among them), and the malformed ones (not an ndarray, rank 2, a 4-D
\* array with 5 channels)
GoodVols == UNION { { [kind |-> "ndarray", shape |-> sh, dtype |-> dt, data |-> d] :
                        d \in [1..Prod(sh) -> Samples],
                        dt \in IF Len(sh) = 4 THEN {"float32"} ELSE {"uint8"} } :
                    sh \in GoodShapes }
BadVols == { [kind |-> "list",    shape |-> <<1, 1, 1>>,    dtype |-> "uint8", data |-> <<0>>],
             [kind |-> "ndarray", shape |-> <<1, 2>>,       dtype |-> "uint8", data |-> <<0, 1>>],
             [kind |-> "ndarray", shape |-> <<1, 1, 1, 5>>, dtype |-> "uint8", data |-> <<0, 1, 2, 0, 1>>] }
Vols == GoodVols \cup BadVols

\* clim arguments: None, well-formed pairs, malformed (wrong size)
ClimArgs == { [given |-> FALSE, val |-> <<>>],
              [given |-> TRUE,  val |-> <<0, 2>>],
              [given |-> TRUE,  val |-> <<1, 2>>],
              [given |-> TRUE,  val |-> <<1>>] }

MethodArgs == {"mip", "iso", "ray", "volume"}
CmapArgs == {"grays", "hot", "nosuchmap"}
ThresholdArgs == { [given |-> FALSE, val |-> 0] } \cup
                 { [given |-> TRUE, val |-> t] : t \in 0..1 }
\* relative step sizes in hundredths: 0.05 and 0.8
StepArgs == {5, 80}

-----------------------------------------------------------------------------
(* Pure parts of the handlers *)

\* set_data: the two checks on vol
ValidVol(vol) ==
    /\ vol.kind = "ndarray"
    /\ \/ Len(vol.shape) = 3
       \/ (Len(vol.shape) = 4 /\ vol.shape[4] <= 4)

\* set_data: clim is a 1-D array of size 2
ValidClim(c) == Len(c) = 2

\* mutant of ClimAfter: without an explicit clim the limits follow the new data
ClimFollowsData(old, vol, climArg) ==
    IF climArg.given THEN climArg.val ELSE <<Min(vol.data), Max(vol.data)>>

\* set_data: the clim in effect after "Handle clim"
ClimAfter(old, vol, climArg) ==
    LET c1 == IF climArg.given THEN climArg.val ELSE old
    IN  IF c1 = None THEN <<Min(vol.data), Max(vol.data)>> ELSE c1

\* set_data: vol -= clim[0]; vol *= 1.0 / (clim[1] - clim[0])
Normalize(v, c) == <<v - c[1], c[2] - c[1]>>

NormalizedVol(vol, c) == [i \in DOMAIN vol.data |-> Normalize(vol.data[i], c)]

\* set_data: "Create vertices?"
NeedsVertexData(index_buffer) == index_buffer = None

\* _create_vertex_data: the cache test; TRUE when the buffers are rebuilt
CacheMiss(shape, cache_id) == shape # cache_id

\* frag_dict
frag_dict == [mip |-> "MIP_FRAG_SHADER", iso |-> "ISO_FRAG_SHADER"]

known_methods == {"mip", "iso", "ray"}

\* the external colormap registry (vispy.color.get_colormap)
KnownCmaps == {"grays", "hot"}

\* relative_step_size setter: the smallest accepted value, 0.1, in hundredths
MinStep == 10

\* method setter: which error, if any, the call ends with
MethodOutcome(m) ==
    IF m \notin known_methods THEN "ValueError"
    ELSE IF m \notin DOMAIN frag_dict THEN "KeyError"
    ELSE "ok"

\* vol.mean() of the array the caller holds after set_data: a float32
\* array is normalised in place (np.array(..., copy=False))
MeanAfter(vol, c) ==
    IF vol.dtype = "float32"
    THEN <<Sum([i \in DOMAIN vol.data |-> vol.data[i] - c[1]]),
           Len(vol.data) * (c[2] - c[1])>>
    ELSE <<Sum(vol.data), Len(vol.data)>>

\* set_data: the same normalisation, applied to a sample that is already
\* a fraction
NormalizeFrac(x, c) == <<x[1] - c[1] * x[2], x[2] * (c[2] - c[1])>>

\* the array the caller holds, after set_data: np.array(vol,
\* dtype='float32', copy=False) copies unless vol already is float32, and
\* then -= and *= work on the caller's array itself
ArrayAfter(vol, c) ==
    IF vol.dtype = "float32" THEN NormalizedVol(vol, c)
    ELSE [i \in DOMAIN vol.data |-> <<vol.data[i], 1>>]

\* draw: "Set attributes that are specific to certain methods"; the mutant
\* uploads the threshold whatever the method
DrawThresholdAlways(m, thr, old) == thr

DrawThreshold(m, thr, old) == IF m = "iso" THEN thr ELSE old

-----------------------------------------------------------------------------
(* VolumeVisual *)

Call(op, arg, result, rebuilt) ==
    [op |-> op, arg |-> arg, result |-> result, rebuilt |-> rebuilt]

\* the fields as __init__ leaves them before it calls set_data
HostInit ==
    /\ constructed = FALSE
    /\ vol_shape = <<>>
    /\ vertex_cache_id = <<>>
    /\ clim = None
    /\ cmap = "unset"
    /\ method = "unset"
    /\ threshold = None
    /\ relative_step_size = 0
    /\ geom = None
    /\ tex = <<>>
    /\ u_shape = <<>>
    /\ u_threshold = None
    /\ u_relative_step_size = 0
    /\ frag = "unset"
    /\ last = Call("none", <<>>, "ok", FALSE)

\* VolumeVisual(vol, clim, method, threshold, relative_step_size, cmap):
\* get_colormap, set_data, then the three setters; an exception in any of
\* them leaves the caller without an object
Construct(vol, climArg, m, thr, step, cm) ==
    LET c   == ClimAfter(None, vol, climArg)
        arg == [shape |-> vol.shape, data |-> vol.data, clim |-> climArg,
                dtype |-> vol.dtype, after |-> ArrayAfter(vol, c), thr |-> thr]
        res == IF cm \notin KnownCmaps THEN "KeyError"
               ELSE IF ~ValidVol(vol) THEN "ValueError"
               ELSE IF climArg.given /\ ~ValidClim(climArg.val) THEN "ValueError"
               ELSE IF MethodOutcome(m) # "ok" THEN MethodOutcome(m)
               ELSE IF step < MinStep THEN "ValueError"
               ELSE "ok"
    IN  /\ ~constructed
        /\ IF res # "ok"
           THEN /\ last' = Call("init", <<>>, res, FALSE)
                /\ UNCHANGED hostState
           ELSE /\ constructed' = TRUE
                /\ cmap' = cm
                /\ clim' = c
                /\ tex' = NormalizedVol(vol, c)
                /\ u_shape' = <<vol.shape[3], vol.shape[2], vol.shape[1]>>
                /\ vol_shape' = SubSeq(vol.shape, 1, 3)
                /\ geom' = SubSeq(vol.shape, 1, 3)
                /\ vertex_cache_id' = SubSeq(vol.shape, 1, 3)
                /\ method' = m
                /\ u_threshold' = None
                /\ frag' = frag_dict[m]
                /\ relative_step_size' = step
                /\ threshold' = IF thr.given THEN <<thr.val, 1>> ELSE MeanAfter(vol, c)
                /\ u_relative_step_size' = u_relative_step_size
                /\ last' = Call("init", arg, "ok", TRUE)

\* set_data(vol, clim)
SetData(vol, climArg) ==
    LET c     == ClimAfter(clim, vol, climArg)
        arg   == [shape |-> vol.shape, data |-> vol.data, clim |-> climArg,
                  dtype |-> vol.dtype, after |-> ArrayAfter(vol, c)]
        shape == SubSeq(vol.shape, 1, 3)
        build == NeedsVertexData(geom) /\ CacheMiss(shape, vertex_cache_id)
    IN  /\ constructed
        /\ IF ~ValidVol(vol) \/ (climArg.given /\ ~ValidClim(climArg.val))
           THEN /\ last' = Call("set_data", <<>>, "ValueError", FALSE)
                /\ UNCHANGED hostState
           ELSE /\ clim' = c
                /\ tex' = NormalizedVol(vol, c)
                /\ u_shape' = <<vol.shape[3], vol.shape[2], vol.shape[1]>>
                /\ vol_shape' = shape
                /\ geom' = IF build THEN shape ELSE geom
                /\ vertex_cache_id' = IF build THEN shape ELSE vertex_cache_id
                /\ last' = Call("set_data", arg, "ok", build)
                /\ UNCHANGED <<constructed, cmap, method, threshold,
                               relative_step_size, u_threshold,
                               u_relative_step_size, frag>>

\* set_data called again with the array object and the clim argument of the
\* call before: vol is that array as the caller now holds it
SetDataAgain ==
    /\ constructed
    /\ last.op \in {"init", "set_data"} /\ last.result = "ok"
    /\ LET held  == last.arg.after
           c     == IF last.arg.clim.given THEN last.arg.clim.val ELSE clim
           data  == [i \in DOMAIN held |-> NormalizeFrac(held[i], c)]
           build == NeedsVertexData(geom) /\ CacheMiss(vol_shape, vertex_cache_id)
           arg   == [shape |-> last.arg.shape, data |-> held, clim |-> last.arg.clim,
                     dtype |-> last.arg.dtype,
                     after |-> IF last.arg.dtype = "float32" THEN data ELSE held]
       IN  /\ clim' = c
           /\ tex' = data
           /\ u_shape' = u_shape
           /\ vol_shape' = vol_shape
           /\ geom' = IF build THEN vol_shape ELSE geom
           /\ vertex_cache_id' = IF build THEN vol_shape ELSE vertex_cache_id
           /\ last' = Call("set_data_again", arg, "ok", build)
    /\ UNCHANGED <<constructed, cmap, method, threshold, relative_step_size,
                   u_threshold, u_relative_step_size, frag>>

\* the method setter
SetMethod(m) ==
    /\ constructed
    /\ last' = Call("method", m, MethodOutcome(m), FALSE)
    /\ IF m \notin known_methods
       THEN UNCHANGED hostState
       ELSE /\ method' = m
            /\ u_threshold' = None
            /\ frag' = IF m \in DOMAIN frag_dict THEN frag_dict[m] ELSE frag
            /\ UNCHANGED <<constructed, vol_shape, vertex_cache_id, clim, cmap,
                           threshold, relative_step_size, geom, tex, u_shape,
                           u_relative_step_size>>

\* the cmap setter
SetCmap(cm) ==
    /\ constructed
    /\ IF cm \notin KnownCmaps
       THEN /\ last' = Call("cmap", <<>>, "KeyError", FALSE)
            /\ UNCHANGED hostState
       ELSE /\ cmap' = cm
            /\ last' = Call("cmap", <<>>, "ok", FALSE)
            /\ UNCHANGED <<constructed, vol_shape, vertex_cache_id, clim, method,
                           threshold, relative_step_size, geom, tex, u_shape,
                           u_threshold, u_relative_step_size, frag>>

\* the threshold setter
SetThreshold(t) ==
    /\ constructed
    /\ threshold' = <<t, 1>>
    /\ last' = Call("threshold", <<>>, "ok", FALSE)
    /\ UNCHANGED <<constructed, vol_shape, vertex_cache_id, clim, cmap, method,
                   relative_step_size, geom, tex, u_shape, u_threshold,
                   u_relative_step_size, frag>>

\* the relative_step_size setter
SetRelativeStepSize(s) ==
    /\ constructed
    /\ IF s < MinStep
       THEN /\ last' = Call("relative_step_size", <<>>, "ValueError", FALSE)
            /\ UNCHANGED hostState
       ELSE /\ relative_step_size' = s
            /\ last' = Call("relative_step_size", <<>>, "ok", FALSE)
            /\ UNCHANGED <<constructed, vol_shape, vertex_cache_id, clim, cmap,
                           method, threshold, geom, tex, u_shape, u_threshold,
                           u_relative_step_size, frag>>

\* draw(transforms)
Draw ==
    /\ constructed
    /\ u_relative_step_size' = relative_step_size
    /\ u_threshold' = DrawThreshold(method, threshold, u_threshold)
    /\ last' = Call("draw", <<>>, "ok", FALSE)
    /\ UNCHANGED <<constructed, vol_shape, vertex_cache_id, clim, cmap, method,
                   threshold, relative_step_size, geom, tex, u_shape, frag>>

-----------------------------------------------------------------------------
(* calculate_steps and d2P (GLSL) *)

\* 1.0 in units of eps = 0.000001
One == 1000000

\* float smallest = 999999.0, and d2P's "very high value"
Sentinel == 999999

\* smallest *= float(smallest < 10000.0)
TooLarge == 10000

Dot3(a, b) == a[1] * b[1] + a[2] * b[2] + a[3] * b[3]

Sgn(x) == IF x > 0 THEN 1 ELSE IF x < 0 THEN -1 ELSE 0

\* x < y for fractions with positive denominators (whole parts first, so
\* that no product leaves the 32-bit range)
FracLess(x, y) ==
    LET qx == x[1] \div x[2]
        qy == y[1] \div y[2]
    IN  \/ qx < qy
        \/ (qx = qy /\ (x[1] % x[2]) * y[2] < (y[1] % y[2]) * x[2])

\* min(a, b)
FracMin(a, b) == IF FracLess(b, a) THEN b ELSE a

\* d2P's numerator and denominator for point p, direction d, plane P
Nom(p, P) == -(Dot3(P, p) - P[4])
Denom(d, P) == Dot3(P, d)

\* mutant of d2P: a plane behind the ray is not turned into the sentinel
d2PKeepsNegative(p, d, P) ==
    LET nom   == Nom(p, P)
        denom == Denom(d, P)
    IN  IF nom = 0 \/ denom = 0 THEN <<Sentinel, 1>>
        ELSE IF denom < 0 THEN <<-nom, -denom>> ELSE <<nom, denom>>

\* float d2P(vec3 p, vec3 d, vec4 P); nom * denom <= 0.0 is the sign test
d2P(p, d, P) ==
    LET nom     == Nom(p, P)
        denom   == Denom(d, P)
        invalid == nom = 0 \/ denom = 0 \/ Sgn(nom) * Sgn(denom) <= 0
    IN  IF invalid THEN <<Sentinel, 1>>
        ELSE IF denom < 0 THEN <<-nom, -denom>> ELSE <<nom, denom>>

\* the six bounding planes of calculate_steps, in call order
CubePlanes == << <<1, 0, 0, 0 - 1>>, <<0, 1, 0, 0 - 1>>, <<0, 0, 1, 0 - 1>>,
                 <<1, 0, 0, One + 1>>, <<0, 1, 0, One + 1>>, <<0, 0, 1, One + 1>> >>

AllPlanes(clip) == Append(CubePlanes, clip)

\* mutant of ToInt: int(x), the half dropped
ToIntTruncates(x) ==
    IF x[1] >= 0 THEN x[1] \div x[2] ELSE -((-x[1]) \div x[2])

\* int(x + 0.5): the conversion truncates toward zero
ToInt(x) ==
    LET n == 2 * x[1] + x[2]
        d == 2 * x[2]
    IN  IF n >= 0 THEN n \div d ELSE -((-n) \div d)

RECURSIVE FoldMin(_, _)
FoldMin(acc, ds) == IF ds = <<>> THEN acc ELSE FoldMin(FracMin(acc, Head(ds)), Tail(ds))

\* int calculate_steps(vec3 edgeLoc, vec3 ray, vec4 extra_clipplane), given
\* the seven d2P results
StepsOf(ds) ==
    LET smallest == FoldMin(<<Sentinel, 1>>, ds)
        clamped  == IF FracLess(smallest, <<TooLarge, 1>>) THEN smallest ELSE <<0, 1>>
    IN  ToInt(clamped)

Coords == {0, NearDist, One \div 2, One - NearDist, One}
RaySteps == {0 - CoarseStep, 0 - FineStep, 0, FineStep, CoarseStep}
ClipPlanes == { <<0, 0, 0, 0>>,
                <<1, 0, 0, One \div 4>>,
                <<0, -1, 0, 0 - (One \div 4)>>,
                <<-1, -1, 0, 0 - One>>,
                <<0, 0, 1, 2 * One>> }

StepsInit ==
    /\ edgeLoc \in Coords \X Coords \X Coords
    /\ ray \in RaySteps \X RaySteps \X RaySteps
    /\ extra_clipplane \in ClipPlanes
    /\ dists = <<>>
    /\ steps = 0
    /\ pcS = "call"

StepsIdle ==
    /\ edgeLoc = <<0, 0, 0>>
    /\ ray = <<0, 0, 0>>
    /\ extra_clipplane = <<0, 0, 0, 0>>
    /\ dists = <<>>
    /\ steps = 0
    /\ pcS = "idle"

CalculateSteps ==
    /\ pcS = "call"
    /\ dists' = [i \in 1..7 |-> d2P(edgeLoc, ray, AllPlanes(extra_clipplane)[i])]
    /\ steps' = StepsOf(dists')
    /\ pcS' = "done"
    /\ UNCHANGED <<edgeLoc, ray, extra_clipplane>>

-----------------------------------------------------------------------------
(* FRAG_SHADER main with MIP_SNIPPETS / ISO_SNIPPETS *)

\* if (nsteps < 4) discard;
MinSteps == 4

\* MIP before_loop: float maxval = -99999.0
InitMaxval == -99999

TexVals == 0..MaxVal

\* the colors $sample can return, <<r, g>>: one channel feeds both unless
\* the volume has channels of its own
Colors == IF rgb THEN TexVals \X TexVals ELSE { <<v, v>> : v \in TexVals }

\* mutant of MipSelect: >= in place of >
MipSelectGeq(val, mv) == IF val >= mv THEN 1 ELSE 0

\* MIP in_loop: float r = float(val > maxval)
MipSelect(val, mv) == IF val > mv THEN 1 ELSE 0

\* MIP in_loop: x = (1.0 - r) * x + r * y
Blend(r, x, y) == (1 - r) * x + r * y

\* ISO in_loop: the index i of the first of the six sub-step samples above
\* the threshold, 6 when there is none
FirstSubStep(sub, t) ==
    IF \E i \in 0..5 : sub[i] > t
    THEN CHOOSE i \in 0..5 : sub[i] > t /\ \A j \in 0..(i - 1) : sub[j] <= t
    ELSE 6

FragInit ==
    /\ fmethod \in {"mip", "iso"}
    /\ rgb \in BOOLEAN
    /\ nsteps \in 0..MaxSteps
    /\ fthreshold \in TexVals
    /\ iter = 0
    /\ vals = <<>>
    /\ prev = <<>>
    /\ maxval = 0
    /\ maxi = 0
    /\ hit = <<>>
    /\ outcome = "none"
    /\ pcF = "main"

FragIdle ==
    /\ fmethod = "mip"
    /\ rgb = FALSE
    /\ nsteps = 0
    /\ fthreshold = 0
    /\ iter = 0
    /\ vals = <<>>
    /\ prev = <<>>
    /\ maxval = 0
    /\ maxi = 0
    /\ hit = <<>>
    /\ outcome = "none"
    /\ pcF = "idle"

\* mutant of Culled: the discard lets a step count of MinSteps - 1 through
CulledBelowOneLess(n) == n < MinSteps - 1

\* if (nsteps < 4) discard;
Culled(n) == n < MinSteps

\* main up to the loop: the discard on the step count, before_loop, iter = nsteps
FragMain ==
    /\ pcF = "main"
    /\ IF Culled(nsteps)
       THEN /\ outcome' = "culled"
            /\ pcF' = "done"
            /\ UNCHANGED <<iter, maxval, maxi>>
       ELSE /\ iter' = nsteps
            /\ maxval' = IF fmethod = "mip" THEN InitMaxval ELSE maxval
            /\ maxi' = 0
            /\ pcF' = "loop"
            /\ UNCHANGED outcome
    /\ UNCHANGED <<fmethod, rgb, nsteps, fthreshold, vals, prev, hit>>

\* one pass of the for body under MIP_SNIPPETS, then iter--
MipIter(color) ==
    /\ pcF = "loop" /\ iter > 0 /\ fmethod = "mip"
    /\ LET val == color[2]
           r   == MipSelect(val, maxval)
       IN  /\ maxval' = Blend(r, maxval, val)
           /\ maxi' = Blend(r, maxi, iter)
           /\ vals' = Append(vals, val)
    /\ prev' = color
    /\ iter' = iter - 1
    /\ UNCHANGED <<fmethod, rgb, nsteps, fthreshold, hit, outcome, pcF>>

\* ISO in_loop, the refinement: the six sub-step samples are taken at
\* iter + 1 - 0.2 * i, the first at the previous iteration's location, the
\* last at this one's; mid holds the red channel at the four locations in
\* between (first: the one before the ray's first sample)
SubSamples(color, first, mid) ==
    [i \in 0..5 |-> IF i = 0 THEN first ELSE IF i = 5 THEN color[1] ELSE mid[i]]

\* one pass of the for body under ISO_SNIPPETS, then iter-- unless it returned
IsoIter(color) ==
    /\ pcF = "loop" /\ iter > 0 /\ fmethod = "iso"
    /\ vals' = Append(vals, color[2])
    /\ prev' = color
    /\ IF color[2] > fthreshold
       THEN \E i0 \in { FirstSubStep(SubSamples(color, first, mid), fthreshold) :
                           first \in IF prev = <<>> THEN TexVals ELSE {prev[1]},
                           mid \in [1..4 -> TexVals] } :
                   IF i0 < 6
                   THEN /\ hit' = <<iter, i0>>
                        /\ outcome' = "color"
                        /\ pcF' = "done"
                        /\ UNCHANGED iter
                   ELSE /\ iter' = iter - 1
                        /\ UNCHANGED <<hit, outcome, pcF>>
       ELSE /\ iter' = iter - 1
            /\ UNCHANGED <<hit, outcome, pcF>>
    /\ UNCHANGED <<fmethod, rgb, nsteps, fthreshold, maxval, maxi>>

\* both loops have ended: after_loop
AfterLoop ==
    /\ pcF = "loop" /\ iter = 0
    /\ outcome' = IF fmethod = "mip" THEN "color" ELSE "discard"
    /\ pcF' = "done"
    /\ UNCHANGED <<fmethod, rgb, nsteps, fthreshold, iter, vals, prev, maxval,
                   maxi, hit>>

-----------------------------------------------------------------------------
(* Specifications *)

\* the visual, driven by its caller
Init == HostInit /\ StepsIdle /\ FragIdle
Next ==
    \/ /\ ~constructed
       /\ \E vol \in Vols, c \in ClimArgs, m \in MethodArgs, thr \in ThresholdArgs,
             s \in StepArgs, cm \in CmapArgs : Construct(vol, c, m, thr, s, cm)
       /\ UNCHANGED <<stepVars, fragVars>>
    \/ /\ constructed
       /\ \E vol \in Vols, c \in ClimArgs : SetData(vol, c)
       /\ UNCHANGED <<stepVars, fragVars>>
    \/ SetDataAgain /\ UNCHANGED <<stepVars, fragVars>>
    \/ /\ constructed
       /\ \E m \in MethodArgs : SetMethod(m)
       /\ UNCHANGED <<stepVars, fragVars>>
    \/ /\ constructed
       /\ \E cm \in CmapArgs : SetCmap(cm)
       /\ UNCHANGED <<stepVars, fragVars>>
    \/ /\ constructed
       /\ \E t \in 0..1 : SetThreshold(t)
       /\ UNCHANGED <<stepVars, fragVars>>
    \/ /\ constructed
       /\ \E s \in StepArgs : SetRelativeStepSize(s)
       /\ UNCHANGED <<stepVars, fragVars>>
    \/ Draw /\ UNCHANGED <<stepVars, fragVars>>
Spec == Init /\ [][Next]_vars

\* calculate_steps, evaluated once on each input
InitSteps == HostInit /\ StepsInit /\ FragIdle
NextSteps == CalculateSteps /\ UNCHANGED <<hostVars, fragVars>>
SpecSteps == InitSteps /\ [][NextSteps]_vars

\* one fragment under the MIP snippets
InitMip == HostInit /\ StepsIdle /\ FragInit /\ fmethod = "mip"
NextMip ==
    \/ FragMain /\ UNCHANGED <<hostVars, stepVars>>
    \/ (\E color \in Colors : MipIter(color)) /\ UNCHANGED <<hostVars, stepVars>>
    \/ AfterLoop /\ UNCHANGED <<hostVars, stepVars>>
SpecMip == InitMip /\ [][NextMip]_vars

\* one fragment under the ISO snippets
InitIso == HostInit /\ StepsIdle /\ FragInit /\ fmethod = "iso"
NextIso ==
    \/ FragMain /\ UNCHANGED <<hostVars, stepVars>>
    \/ (\E color \in Colors : IsoIter(color)) /\ UNCHANGED <<hostVars, stepVars>>
    \/ AfterLoop /\ UNCHANGED <<hostVars, stepVars>>
SpecIso == InitIso /\ [][NextIso]_vars

\* one fragment under either method, run to its end: the GPU executes every
\* step of an invocation, so a step that can be taken is taken
InitFrag == HostInit /\ StepsIdle /\ FragInit
NextFrag ==
    \/ FragMain /\ UNCHANGED <<hostVars, stepVars>>
    \/ (\E color \in Colors : MipIter(color)) /\ UNCHANGED <<hostVars, stepVars>>
    \/ (\E color \in Colors : IsoIter(color)) /\ UNCHANGED <<hostVars, stepVars>>
    \/ AfterLoop /\ UNCHANGED <<hostVars, stepVars>>
SpecFrag == InitFrag /\ [][NextFrag]_vars /\ WF_vars(NextFrag)

-----------------------------------------------------------------------------
(* Claims about the host-side state machine (checked under Spec) *)

DataCall(l) == l.op \in {"set_data", "init"} /\ l.result = "ok"

\* C1: over any sequence of set_data calls the vertex and index buffers are
\* regenerated if and only if the shape passed to set_data differs from the
\* shape the geometry was last built for, and after every set_data the
\* cached geometry corresponds to the current volume shape.
C1_RebuildIffShapeChanged ==
    [][ (last'.op = "set_data" /\ last'.result = "ok") =>
            /\ last'.rebuilt <=> (SubSeq(last'.arg.shape, 1, 3) # geom)
            /\ geom' = vol_shape'
            /\ vertex_cache_id' = vol_shape' ]_vars

\* C2: every setter call that fails leaves the whole visual state exactly as
\* it was before the call (method, clim, colormap, step size, volume shape,
\* the u_threshold uniform and the bound fragment shader included).
C2_FailedCallChangesNothing ==
    [][ (last'.op # "init" /\ last'.result # "ok") => UNCHANGED hostState ]_vars

\* C3: setting the method succeeds exactly for 'mip' and 'iso' and fails with
\* an invalid-input error (ValueError, raised by the validation step) for
\* every other value, the reserved value 'ray' included.
C3_MethodAcceptsExactlyMipIso ==
    last.op = "method" =>
        /\ last.result = "ok" <=> last.arg \in {"mip", "iso"}
        /\ last.arg \notin {"mip", "iso"} => last.result = "ValueError"

\* C4 (as stated): u_threshold is cleared by every method-setter call, is
\* written only by a draw performed while the method is 'iso' (then with the
\* current threshold), and is unset at every draw issued while the method
\* is 'mip'.
C4_ClearedByEverySetMethod ==
    [][ /\ last'.op = "method" => u_threshold' = None
        /\ (u_threshold' # u_threshold /\ u_threshold' # None) =>
               (last'.op = "draw" /\ method = "iso" /\ u_threshold' = threshold)
        /\ (last'.op = "draw" /\ method = "mip") => u_threshold' = None ]_vars

\* C4 (amended): u_threshold is cleared by every method-setter call that the
\* validation step does not reject, and left alone by a rejected one; it is
\* written only by a draw performed while the method is 'iso' (then with the
\* current threshold); at every draw issued while the method is 'mip' it is
\* unset.
C4_ClearedByAcceptedSetMethod ==
    [][ /\ (last'.op = "method" /\ last'.result # "ValueError") => u_threshold' = None
        /\ (last'.op = "method" /\ last'.result = "ValueError") => u_threshold' = u_threshold
        /\ (u_threshold' # u_threshold /\ u_threshold' # None) =>
               (last'.op = "draw" /\ method = "iso" /\ u_threshold' = threshold)
        /\ (last'.op = "draw" /\ method = "iso") => u_threshold' = threshold
        /\ (last'.op = "draw" /\ method = "mip") => u_threshold' = None ]_vars

\* a draw under 'mip' has just been issued on a visual whose threshold is
\* set, and the uniform is unset
C4_Witness ==
    /\ last.op = "draw"
    /\ method = "mip"
    /\ frag = "MIP_FRAG_SHADER"
    /\ threshold # None
    /\ u_threshold = None

\* the value num/den lies in [0, 1], is 0, is 1
InUnit(x) == \/ (x[2] > 0 /\ 0 <= x[1] /\ x[1] <= x[2])
             \/ (x[2] < 0 /\ x[2] <= x[1] /\ x[1] <= 0)
IsZero(x) == x[2] # 0 /\ x[1] = 0
IsOne(x)  == x[2] # 0 /\ x[1] = x[2]

\* C5: for every volume and every contrast-limit pair (low, high), low <
\* high, in effect during set_data, every sample uploaded to the texture
\* lies in [0, 1], a sample equal to low is uploaded as 0 and a sample equal
\* to high as 1, also when the data holds values outside [low, high].
C5_UploadedSamplesInUnitRange ==
    (DataCall(last) /\ clim[1] < clim[2]) =>
        \A i \in DOMAIN tex :
            /\ InUnit(tex[i])
            /\ last.arg.data[i] = clim[1] => IsZero(tex[i])
            /\ last.arg.data[i] = clim[2] => IsOne(tex[i])

\* C6: the contrast limits default to the min/max of the data of the first
\* set_data call (the constructor's) and are then preserved: a later call
\* changes them only when it passes an explicit clim, to exactly that pair,
\* and they never follow the min/max of newly supplied data.
C6_ClimPreserved ==
    [][ IF last'.op \in {"set_data", "init"} /\ last'.result = "ok"
        THEN clim' = IF last'.arg.clim.given THEN last'.arg.clim.val
                     ELSE IF last'.op = "init"
                          THEN <<Min(last'.arg.data), Max(last'.arg.data)>>
                          ELSE clim
        ELSE clim' = clim ]_vars

\* a later set_data without clim has uploaded data whose min/max are not
\* the stored limits
C6_Witness ==
    /\ last.op = "set_data"
    /\ last.result = "ok"
    /\ ~last.arg.clim.given
    /\ clim # <<Min(last.arg.data), Max(last.arg.data)>>

\* x and y are the same finite number
SameValue(x, y) == x[2] # 0 /\ y[2] # 0 /\ x[1] * y[2] = y[1] * x[2]

\* C12: set_data leaves the caller's array as it was, so a second call with
\* the same array object and the same clim uploads what the first call
\* uploaded, and the threshold the constructor defaults to is the mean of
\* the samples the caller supplied.  (Asked only of calls whose contrast
\* limits are a proper pair, low < high.)
C12_CallerArrayUntouched ==
    [][ /\ (last'.op \in {"init", "set_data"} /\ last'.result = "ok"
                /\ clim'[1] < clim'[2]) =>
               \A i \in DOMAIN last'.arg.data :
                   SameValue(last'.arg.after[i], <<last'.arg.data[i], 1>>)
        /\ (last'.op = "set_data_again" /\ clim[1] < clim[2]) =>
               \A i \in DOMAIN tex : SameValue(tex'[i], tex[i])
        /\ (last'.op = "init" /\ last'.result = "ok" /\ ~last'.arg.thr.given
                /\ clim'[1] < clim'[2]) =>
               SameValue(threshold', <<Sum(last'.arg.data), Len(last'.arg.data)>>) ]_vars

-----------------------------------------------------------------------------
(* Claims about calculate_steps (checked under SpecSteps) *)

\* plane i of the seven is one the ray can reach: numerator and denominator
\* are non-zero (the ray is not parallel to it) and it is not behind the ray
PlaneValid(i) ==
    LET P == AllPlanes(extra_clipplane)[i]
    IN  \/ (Nom(edgeLoc, P) > 0 /\ Denom(ray, P) > 0)
        \/ (Nom(edgeLoc, P) < 0 /\ Denom(ray, P) < 0)

Abs(x) == IF x < 0 THEN -x ELSE x

\* the distance to plane i along the ray, in ray steps
PlaneDist(i) ==
    LET P == AllPlanes(extra_clipplane)[i]
    IN  <<Abs(Nom(edgeLoc, P)), Abs(Denom(ray, P))>>

ValidPlanes == {i \in 1..7 : PlaneValid(i)}

\* the smallest of the valid distances
MinValidDist ==
    PlaneDist(CHOOSE i \in ValidPlanes :
                 \A j \in ValidPlanes : ~FracLess(PlaneDist(j), PlaneDist(i)))

\* r is x rounded to the nearest integer (halves upward)
IsRounded(r, x) == (2 * r - 1) * x[2] <= 2 * x[1] /\ 2 * x[1] < (2 * r + 1) * x[2]

\* the entry point is strictly inside the unit cube, the ray step points
\* toward exactly one face
Inside(p) == \A k \in 1..3 : 0 < p[k] /\ p[k] < One
OneFace(d) == Cardinality({k \in 1..3 : d[k] # 0}) = 1
Axis(d) == CHOOSE k \in 1..3 : d[k] # 0

\* the distance to that face, in ray steps: to the face itself, and to its
\* bounding plane, which lies eps outside it
FaceDist(p, d) ==
    LET k == Axis(d)
    IN  IF d[k] > 0 THEN <<One - p[k], d[k]>> ELSE <<p[k], -d[k]>>
BiasedFaceDist(p, d) ==
    LET k == Axis(d)
    IN  IF d[k] > 0 THEN <<One + 1 - p[k], d[k]>> ELSE <<p[k] + 1, -d[k]>>

ClipNotNearer(x) == ~PlaneValid(7) \/ ~FracLess(PlaneDist(7), x)

\* C7 (as stated): for an entry point strictly inside the unit cube and a
\* ray step toward exactly one face, the clip plane not nearer than that
\* face, calculate_steps returns the distance to that face divided by the
\* step length, rounded to the nearest integer; in general it returns the
\* rounded minimum of the valid distances over the seven planes.  (Read
\* with the clamp of the claim's source: nothing is asked of a distance of
\* 10000 steps or more.)
C7_StepsIsRoundedFaceDistance ==
    pcS = "done" =>
        /\ ( /\ Inside(edgeLoc) /\ OneFace(ray)
             /\ ClipNotNearer(FaceDist(edgeLoc, ray))
             /\ FracLess(BiasedFaceDist(edgeLoc, ray), <<TooLarge, 1>>) )
               => IsRounded(steps, FaceDist(edgeLoc, ray))
        /\ (ValidPlanes # {} /\ FracLess(MinValidDist, <<TooLarge, 1>>))
               => IsRounded(steps, MinValidDist)

\* C7 (amended): in that case calculate_steps returns the distance to the
\* face's bounding plane (eps = 0.000001 outside the face) divided by the
\* step length, rounded to the nearest integer, and 0 when that quotient is
\* 10000 or more; in general it returns the rounded minimum of the valid
\* distances over the seven planes, and 0 when no plane is valid or that
\* minimum is 10000 or more.
C7_StepsIsRoundedBiasedDistance ==
    pcS = "done" =>
        /\ (Inside(edgeLoc) /\ OneFace(ray) /\ ClipNotNearer(BiasedFaceDist(edgeLoc, ray)))
               => IF FracLess(BiasedFaceDist(edgeLoc, ray), <<TooLarge, 1>>)
                  THEN IsRounded(steps, BiasedFaceDist(edgeLoc, ray))
                  ELSE steps = 0
        /\ IF ValidPlanes # {} /\ FracLess(MinValidDist, <<TooLarge, 1>>)
           THEN IsRounded(steps, MinValidDist)
           ELSE steps = 0

\* an interior entry point, a ray toward one face, a clip plane that the
\* ray reaches, but not before the face, and a step count of 4 or more
C7_Witness ==
    /\ pcS = "done"
    /\ Inside(edgeLoc) /\ OneFace(ray)
    /\ PlaneValid(7) /\ ClipNotNearer(BiasedFaceDist(edgeLoc, ray))
    /\ steps >= 4

\* C8: calculate_steps never returns a negative step count: a plane whose
\* numerator is zero, whose denominator is zero or that lies behind the ray
\* contributes the sentinel 999999 (every other plane a positive distance),
\* and when all seven planes are invalid the result is 0.
C8_StepsNeverNegative ==
    pcS = "done" =>
        /\ steps >= 0
        /\ \A i \in 1..7 :
               IF PlaneValid(i)
               THEN dists[i][1] > 0 /\ dists[i][2] > 0
               ELSE dists[i] = <<Sentinel, 1>>
        /\ ValidPlanes = {} => steps = 0

\* a degenerate ray, parallel to every plane, with a clip plane that is
\* not through the entry point: all seven invalid, the sentinel minimum
\* clamped, result 0
C8_Witness ==
    /\ pcS = "done"
    /\ ValidPlanes = {}
    /\ Nom(edgeLoc, extra_clipplane) # 0
    /\ FoldMin(<<Sentinel, 1>>, dists) = <<Sentinel, 1>>
    /\ steps = 0

-----------------------------------------------------------------------------
(* Claims about the fragment loop (checked under SpecIso and SpecMip) *)

\* the loop samples above the threshold, by position in traversal order
Exceeding == {k \in 1..Len(vals) : vals[k] > fthreshold}
FirstOf(S) == CHOOSE k \in S : \A j \in S : k <= j
\* the value of iter at which the k-th loop sample was taken
IterOf(k) == nsteps - k + 1

\* C9: under the isosurface method every non-culled fragment ends in one of
\* two ways: if some loop sample exceeds the threshold it writes a color at
\* the first such sample in traversal order, after at most six sub-steps,
\* and stops there; it is discarded if and only if no sample exceeds the
\* threshold.
C9_IsoColorAtFirstCrossing ==
    (pcF = "done" /\ fmethod = "iso" /\ outcome # "culled") =>
        /\ outcome \in {"color", "discard"}
        /\ Exceeding # {} =>
               /\ outcome = "color"
               /\ hit[1] = IterOf(FirstOf(Exceeding))
               /\ hit[2] \in 0..5
               /\ Len(vals) = FirstOf(Exceeding)
        /\ outcome = "discard" <=> Exceeding = {}

\* the straightforward conditional update, run over the samples s with
\* iter starting at it
RECURSIVE CondUpdate(_, _, _, _)
CondUpdate(mv, mi, s, it) ==
    IF s = <<>> THEN <<mv, mi>>
    ELSE IF Head(s) > mv THEN CondUpdate(Head(s), it, Tail(s), it - 1)
         ELSE CondUpdate(mv, mi, Tail(s), it - 1)

\* C10: under MIP the branchless update leaves, at every point of the loop
\* and after it, the state a conditional update would; after the loop
\* maxval is the maximum of all sampled values and maxi the iteration at
\* which it was first met; no sample ends the loop early (nsteps samples
\* are taken) and the fragment yields a color.
C10_MipTracksFirstMaximum ==
    (fmethod = "mip" /\ pcF \in {"loop", "done"} /\ outcome # "culled") =>
        /\ <<maxval, maxi>> = CondUpdate(InitMaxval, 0, vals, nsteps)
        /\ pcF = "done" =>
               /\ outcome = "color"
               /\ Len(vals) = nsteps
               /\ \A k \in 1..Len(vals) : vals[k] <= maxval
               /\ \E k \in 1..Len(vals) :
                      /\ vals[k] = maxval
                      /\ maxi = IterOf(k)
                      /\ \A j \in 1..(k - 1) : vals[j] < maxval

\* a finished MIP fragment whose maximum was sampled twice, the first time
\* not by the first iteration
C10_Witness ==
    /\ fmethod = "mip" /\ pcF = "done" /\ outcome = "color"
    /\ \E j, k \in 1..Len(vals) :
           /\ 1 < j /\ j < k
           /\ vals[j] = maxval /\ vals[k] = maxval
           /\ vals[1] < maxval
           /\ maxi = IterOf(j)

-----------------------------------------------------------------------------
(* Claims about the sampling loop of either method (checked under SpecFrag) *)

\* C11: a fragment whose step count is below 4 is discarded and never
\* samples the volume; otherwise the k-th sample is taken with iter =
\* nsteps - k + 1 (the indices nsteps, nsteps - 1, ..., 1, in that order,
\* none twice), the loop takes exactly nsteps samples unless the method
\* returned from inside it, and the fragment always reaches its end.
C11_LoopCountsDownAndEnds ==
    /\ [](nsteps < MinSteps => /\ vals = <<>>
                               /\ pcF = "done" => outcome = "culled")
    /\ [][ vals' # vals =>
               /\ Len(vals') = Len(vals) + 1
               /\ iter = nsteps - Len(vals)
               /\ 1 <= iter /\ iter <= nsteps
               /\ \/ iter' = iter - 1
                  \/ (pcF' = "done" /\ hit' # <<>>) ]_vars
    /\ []((pcF = "done" /\ nsteps >= MinSteps) =>
              /\ outcome \in {"color", "discard"}
              /\ IF hit = <<>> THEN Len(vals) = nsteps
                 ELSE Len(vals) = nsteps - hit[1] + 1 /\ hit[1] \in 1..nsteps)
    /\ <>(pcF = "done")

\* an ISO fragment that returned from inside the loop, after more than one
\* iteration and before the last one
C11_Witness ==
    /\ pcF = "done" /\ fmethod = "iso" /\ outcome = "color"
    /\ hit # <<>>
    /\ 1 < Len(vals) /\ Len(vals) < nsteps

====
